---- MODULE Spec2Model ----
(***************************************************************************)
(* Model of dmm_es51922.py: the decoder of the 12-byte packets of the      *)
(* Cyrustek ES51922 multimeter chipset (get_bits, the lookup tables,       *)
(* parse, output_readable, output_csv) and the ingestion loop of main.     *)
(*                                                                         *)
(* Conventions.  Text is a sequence of tokens: a Decimal is rendered one   *)
(* character per token, table strings ("mV", "voltage") are one token.     *)
(* Python's None is the token "None".  A call either returns or raises;    *)
(* a raising call is the record Raise(exc, line) naming the exception      *)
(* class and the source line that raises it.  The table field "scale" is   *)
(* kept as its power of ten (1e-3 is -3), and the float "value" as the     *)
(* pair mantissa / power of ten; binary rounding of floats is not          *)
(* modelled.                                                               *)
(***************************************************************************)
EXTENDS Integers, Sequences, FiniteSets, TLC

VARIABLES packet, pc, ret, out, int_type, template, bits, results, running, emitted, nframes, log, mode_arg

vars == <<packet, pc, ret, out, int_type, template, bits, results, running, emitted, nframes, log, mode_arg>>

(***************************************************************************)
(* Bounds of the model.                                                    *)
(***************************************************************************)
MaxFunctionByte == 63
MaxRangeByte == 56
MaxDigitByte == 58
MaxFrames == 3

\* struct.unpack("B"): an unsigned byte
MaxByte == 255

None == "None"

Raise(exc, line) == [ok |-> FALSE, exc |-> exc, line |-> line]

(***************************************************************************)
(* test_bit, get_bits                                                      *)
(***************************************************************************)
test_bit_shifted(n, offset) == ((n \div (2 ^ (offset + 1))) % 2) = 1

test_bit(n, offset) == ((n \div (2 ^ offset)) % 2) = 1

\* a template element: the literal 0 or 1, or a flag name
Lit(b) == [fixed |-> TRUE, lit |-> b, name |-> ""]
Flag(n) == [fixed |-> FALSE, lit |-> 0, name |-> n]

RECURSIVE get_bits_loop(_, _, _, _)
get_bits_loop(n, tmpl, i, acc) ==
    IF i = 7 THEN [ok |-> TRUE, bits |-> acc]
    ELSE LET bit == test_bit(n, i)
             bit_name == tmpl[(6 - i) + 1]
         IN  IF bit_name.fixed /\ (bit = (bit_name.lit = 1))
             THEN get_bits_loop(n, tmpl, i + 1, acc)
             ELSE IF bit_name.fixed
             THEN Raise("ValueError", 67)
             ELSE get_bits_loop(n, tmpl, i + 1, (bit_name.name :> bit) @@ acc)

get_bits(n, tmpl) == get_bits_loop(n, tmpl, 0, <<>>)

(***************************************************************************)
(* The range tables.                                                       *)
(***************************************************************************)
Triple(scale, precision, unit) == [num |-> TRUE, scale |-> scale, precision |-> precision, unit |-> unit]
Label(s) == [num |-> FALSE, label |-> s]

RANGE_VOLTAGE ==
    (48 :> Triple(0, 4, "V")) @@ (49 :> Triple(0, 3, "V")) @@ (50 :> Triple(0, 2, "V")) @@
    (51 :> Triple(0, 1, "V")) @@ (52 :> Triple(-3, 2, "mV"))

RANGE_CURRENT_AUTO_UA ==
    (48 :> Triple(-6, 2, "uA")) @@ (49 :> Triple(-6, 1, "uA"))

RANGE_CURRENT_AUTO_MA ==
    (48 :> Triple(-3, 3, "mA")) @@ (49 :> Triple(-3, 2, "mA"))

RANGE_CURRENT_22A == (48 :> Triple(0, 3, "A"))

RANGE_CURRENT_MANUAL ==
    (48 :> Triple(0, 4, "A")) @@ (49 :> Triple(0, 3, "A")) @@ (50 :> Triple(0, 2, "A")) @@
    (51 :> Triple(0, 1, "A")) @@ (52 :> Triple(0, 0, "A"))

RANGE_ADP ==
    (48 :> Label("ADP4")) @@ (49 :> Label("ADP3")) @@ (50 :> Label("ADP2")) @@
    (51 :> Label("ADP1")) @@ (52 :> Label("ADP0"))

RANGE_RESISTANCE ==
    (48 :> Triple(0, 2, "W")) @@ (49 :> Triple(3, 4, "kW")) @@ (50 :> Triple(3, 3, "kW")) @@
    (51 :> Triple(3, 2, "kW")) @@ (52 :> Triple(6, 4, "MW")) @@ (53 :> Triple(6, 3, "MW")) @@
    (54 :> Triple(6, 2, "MW"))

RANGE_FREQUENCY ==
    (48 :> Triple(0, 1, "Hz")) @@ (49 :> Triple(0, 1, "Hz")) @@
    (51 :> Triple(3, 3, "kHz")) @@ (52 :> Triple(3, 2, "kHz")) @@ (53 :> Triple(6, 4, "MHz")) @@
    (54 :> Triple(6, 3, "MHz")) @@ (55 :> Triple(6, 2, "MHz"))

RANGE_CAPACITANCE ==
    (48 :> Triple(-9, 3, "nF")) @@ (49 :> Triple(-9, 2, "nF")) @@ (50 :> Triple(-6, 4, "uF")) @@
    (51 :> Triple(-6, 3, "uF")) @@ (52 :> Triple(-6, 2, "uF")) @@ (53 :> Triple(-3, 4, "mF")) @@
    (54 :> Triple(-3, 3, "mF")) @@ (55 :> Triple(-3, 2, "mF"))

RANGE_DIODE == (48 :> Triple(0, 4, "V"))

RANGE_CONTINUITY == (48 :> Triple(0, 2, "W"))

\* the second element of a FUNCTION entry: a range table, or None
Table(t) == [none |-> FALSE, tbl |-> t]
NoTable == [none |-> TRUE, tbl |-> <<>>]

FUNCTION ==
    (59 :> <<"voltage", Table(RANGE_VOLTAGE), "V">>) @@
    (61 :> <<"current", Table(RANGE_CURRENT_AUTO_UA), "A">>) @@
    (63 :> <<"current", Table(RANGE_CURRENT_AUTO_MA), "A">>) @@
    (48 :> <<"current", Table(RANGE_CURRENT_22A), "A">>) @@
    (57 :> <<"current", Table(RANGE_CURRENT_MANUAL), "A">>) @@
    (51 :> <<"resistance", Table(RANGE_RESISTANCE), "W">>) @@
    (53 :> <<"continuity", Table(RANGE_CONTINUITY), "W">>) @@
    (49 :> <<"diode", Table(RANGE_DIODE), "V">>) @@
    (50 :> <<"frequency", Table(RANGE_FREQUENCY), "Hz">>) @@
    (54 :> <<"capacitance", Table(RANGE_CAPACITANCE), "F">>) @@
    (52 :> <<"temperature", NoTable, "deg">>) @@
    (62 :> <<"ADP", Table(RANGE_ADP), "">>)

DIGITS == [code \in 48..57 |-> code - 48]

STATUS == <<Lit(0), Lit(1), Lit(1), Flag("Judge"), Flag("Sign"), Flag("BATT"), Flag("OL")>>

OPTION1 == <<Lit(0), Lit(1), Lit(1), Flag("MAX"), Flag("MIN"), Flag("REL"), Flag("RMR")>>

OPTION2 == <<Lit(0), Lit(1), Lit(1), Flag("UL"), Flag("PMAX"), Flag("PMIN"), Lit(0)>>

OPTION3 == <<Lit(0), Lit(1), Lit(1), Flag("DC"), Flag("AC"), Flag("AUTO"), Flag("VAHZ")>>

OPTION4 == <<Lit(0), Lit(1), Lit(1), Lit(0), Flag("VBAR"), Flag("Hold"), Flag("LPF")>>

OPTIONS == <<STATUS, OPTION1, OPTION2, OPTION3, OPTION4>>

(***************************************************************************)
(* decimal.Decimal: sign, coefficient and exponent, as as_tuple() gives    *)
(* them.                                                                   *)
(***************************************************************************)
Abs(n) == IF n < 0 THEN -n ELSE n

Decimal(n) == [sign |-> IF n < 0 THEN 1 ELSE 0, coeff |-> Abs(n), exp |-> 0]

\* the exact quotient keeps the exponent nearest to the ideal one (here 0)
RECURSIVE DecimalStrip(_)
DecimalStrip(d) ==
    IF d.exp < 0 /\ d.coeff % 10 = 0
    THEN DecimalStrip([d EXCEPT !.coeff = d.coeff \div 10, !.exp = d.exp + 1])
    ELSE d

\* Decimal.__truediv__ by the integer 10**p
DecimalDivPow10(d, p) == DecimalStrip([d EXCEPT !.exp = d.exp - p])

\* Decimal.quantize to the exponent e, ROUND_HALF_EVEN
DecimalQuantize(d, e) ==
    IF d.exp >= e
    THEN [d EXCEPT !.coeff = d.coeff * (10 ^ (d.exp - e)), !.exp = e]
    ELSE LET unit == 10 ^ (e - d.exp)
             q == d.coeff \div unit
             r == d.coeff % unit
             up == (2 * r > unit) \/ (2 * r = unit /\ q % 2 = 1)
         IN  [d EXCEPT !.coeff = IF up THEN q + 1 ELSE q, !.exp = e]

DigitChar == <<"0", "1", "2", "3", "4", "5", "6", "7", "8", "9">>

RECURSIVE NatDigits(_)
NatDigits(n) ==
    IF n < 10 THEN <<DigitChar[n + 1]>>
    ELSE NatDigits(n \div 10) \o <<DigitChar[(n % 10) + 1]>>

Zeros(k) == [i \in 1..k |-> "0"]

\* Decimal.__str__ for exponents <= 0 (plain notation)
DecimalStr(d) ==
    LET digits == NatDigits(d.coeff)
        dotplace == Len(digits) + d.exp
        sgn == IF d.sign = 1 THEN <<"-">> ELSE <<>>
        intpart == IF dotplace <= 0 THEN <<"0">> ELSE SubSeq(digits, 1, dotplace)
        fracpart == IF d.exp = 0 THEN <<>>
                    ELSE IF dotplace <= 0 THEN <<".">> \o Zeros(-dotplace) \o digits
                    ELSE <<".">> \o SubSeq(digits, dotplace + 1, Len(digits))
    IN  sgn \o intpart \o fracpart

\* float(Decimal) * scale, kept exact: mant * 10^exp10
FloatTimesScale(d, scale) ==
    [mant |-> IF d.sign = 1 THEN -d.coeff ELSE d.coeff, exp10 |-> d.exp + scale]

(***************************************************************************)
(* parse                                                                   *)
(***************************************************************************)
RECURSIVE decode_options(_, _, _)
decode_options(d_options, i, options) ==
    IF i > 5 THEN [ok |-> TRUE, bits |-> options]
    ELSE LET b == get_bits(d_options[i], OPTIONS[i])
         IN  IF ~b.ok THEN b
             ELSE decode_options(d_options, i + 1, b.bits @@ options)

current_of_unchecked(options) ==
    IF options["DC"] THEN [ok |-> TRUE, current |-> "AC"]
    ELSE IF options["AC"] THEN [ok |-> TRUE, current |-> "DC"]
    ELSE [ok |-> TRUE, current |-> None]

current_of(options) ==
    IF options["AC"] /\ options["DC"] THEN Raise("ValueError", 242)
    ELSE IF options["DC"] THEN [ok |-> TRUE, current |-> "AC"]
    ELSE IF options["AC"] THEN [ok |-> TRUE, current |-> "DC"]
    ELSE [ok |-> TRUE, current |-> None]

operation_of_OL_first(options) ==
    IF options["OL"] THEN "overload"
    ELSE IF options["UL"] THEN "underload"
    ELSE "normal"

operation_of(options) ==
    IF options["UL"] THEN "underload"
    ELSE IF options["OL"] THEN "overload"
    ELSE "normal"

peak_of(options) ==
    IF options["MAX"] THEN "max"
    ELSE IF options["MIN"] THEN "min"
    ELSE None

mode_override_no_judge(mode, unit, m_range, options) ==
    IF options["VAHZ"]
    THEN [mode |-> "frequency", unit |-> "Hz", m_range |-> Triple(0, 1, "Hz")]
    ELSE IF (options["VAHZ"] \/ mode = "frequency") /\ options["Judge"]
    THEN [mode |-> "duty_cycle", unit |-> "%", m_range |-> Triple(0, 1, "%")]
    ELSE [mode |-> mode, unit |-> unit, m_range |-> m_range]

\* the frequency / duty cycle override
mode_override(mode, unit, m_range, options) ==
    IF options["VAHZ"] /\ ~options["Judge"]
    THEN [mode |-> "frequency", unit |-> "Hz", m_range |-> Triple(0, 1, "Hz")]
    ELSE IF (options["VAHZ"] \/ mode = "frequency") /\ options["Judge"]
    THEN [mode |-> "duty_cycle", unit |-> "%", m_range |-> Triple(0, 1, "%")]
    ELSE [mode |-> mode, unit |-> unit, m_range |-> m_range]

temperature_range(mode, m_range, options) ==
    IF mode = "temperature" /\ options["VBAR"] THEN Triple(0, 1, "deg")
    ELSE IF mode = "temperature" /\ ~options["VBAR"] THEN Triple(0, 2, "deg")
    ELSE m_range

\* digits is the list of the five numerals, most significant first
RECURSIVE display_sum(_, _)
display_sum(digits, i) ==
    IF i > 4 THEN 0
    ELSE digits[i + 1] * (10 ^ (4 - i)) + display_sum(digits, i + 1)

signed_display(digits, options) ==
    IF options["Sign"] THEN display_sum(digits, 0) * (-1) ELSE display_sum(digits, 0)

quantized_display_unpadded(n, precision) ==
    DecimalDivPow10(Decimal(n), precision)

quantized_display(n, precision) ==
    DecimalQuantize(DecimalDivPow10(Decimal(n), precision), -precision)

suppress_value_only(operation, value, display_value) ==
    IF operation # "normal"
    THEN [value |-> <<>>, display_value |-> display_value]
    ELSE [value |-> value, display_value |-> display_value]

\* the value and display_value stored in the results
suppress(operation, value, display_value) ==
    IF operation # "normal"
    THEN [value |-> <<>>, display_value |-> <<>>]
    ELSE [value |-> value, display_value |-> display_value]

\* parse with the final m_range kept next to the results it returns
parse_locals(p) ==
    LET d_range == p[1]
        d_digits == <<p[2], p[3], p[4], p[5], p[6]>>
        d_function == p[7]
        d_options == <<p[8], p[9], p[10], p[11], p[12]>>
    IN
    IF d_function \notin DOMAIN FUNCTION THEN Raise("KeyError", 229)
    ELSE IF FUNCTION[d_function][2].none THEN Raise("TypeError", 230)
    ELSE IF d_range \notin DOMAIN FUNCTION[d_function][2].tbl THEN Raise("KeyError", 230)
    ELSE
    LET mode0 == FUNCTION[d_function][1]
        m_range0 == FUNCTION[d_function][2].tbl[d_range]
        unit0 == FUNCTION[d_function][3]
        decoded == decode_options(d_options, 1, <<>>)
    IN
    IF ~decoded.ok THEN decoded
    ELSE
    LET options == decoded.bits
        cur == current_of(options)
    IN
    IF ~cur.ok THEN cur
    ELSE
    LET operation == operation_of(options)
        ov == mode_override(mode0, unit0, m_range0, options)
        mode == ov.mode
        unit == ov.unit
        m_range == temperature_range(mode, ov.m_range, options)
    IN
    IF \E i \in 1..5 : d_digits[i] \notin DOMAIN DIGITS THEN Raise("KeyError", 308)
    ELSE IF ~m_range.num THEN Raise("TypeError", 318)
    ELSE
    LET digits == [i \in 1..5 |-> DIGITS[d_digits[i]]]
        display_value == quantized_display(signed_display(digits, options), m_range.precision)
        value == FloatTimesScale(display_value, m_range.scale)
        kept == suppress(operation, value, display_value)
    IN
    [ok |-> TRUE,
     m_range |-> m_range,
     results |-> [value |-> kept.value,
                  unit |-> unit,
                  display_value |-> kept.display_value,
                  display_unit |-> m_range.unit,
                  mode |-> mode,
                  current |-> cur.current,
                  peak |-> peak_of(options),
                  relative |-> options["REL"],
                  hold |-> options["Hold"],
                  operation |-> operation,
                  battery_low |-> options["BATT"]]]

parse(p) ==
    LET r == parse_locals(p)
    IN  IF r.ok THEN [ok |-> TRUE, results |-> r.results] ELSE r

(***************************************************************************)
(* output_readable, output_csv                                             *)
(***************************************************************************)
\* str.append does not exist
append_battery_notice(line) == Raise("AttributeError", 353)

output_readable(res) ==
    LET line == IF res.operation = "normal"
                THEN DecimalStr(res.display_value) \o <<" ">> \o <<res.display_unit>>
                ELSE <<"-, the measurement is ", res.operation, "ed!">>
    IN  IF res.battery_low THEN append_battery_notice(line)
        ELSE [ok |-> TRUE, line |-> line]

CSV_FIELDS == <<"value", "unit", "mode", "current", "operation", "peak",
                "battery_low", "relative", "hold">>

\* str(float) is kept as the token <<"float", mant, exp10>>
format_field(res, field_name) ==
    IF field_name = "value"
    THEN IF res.operation = "normal"
         THEN <<"float", res.value.mant, res.value.exp10>>
         ELSE <<>>
    ELSE IF field_name \in {"battery_low", "relative", "hold"}
    THEN IF res[field_name] THEN <<"1">> ELSE <<"0">>
    ELSE IF res[field_name] = None THEN <<>>
    ELSE <<res[field_name]>>

output_csv(res) == [i \in 1..Len(CSV_FIELDS) |-> format_field(res, CSV_FIELDS[i])]

(***************************************************************************)
(* The inputs.                                                             *)
(***************************************************************************)
NotRun == <<>>
Unbound == <<>>

\* the byte values tried for a digit byte: the numerals 0, 2, 9 and the
\* codes after the last valid one
DigitBytes == {48, 50, 57} \cup (58..MaxDigitByte)

\* every function and range code, with the flags that select the mode, the
\* operation and the kind of current
TablePackets ==
    { <<r, 50, 50, 48, 48, 48, f, s, 48, o2, o3, o4>> :
        r \in 48..MaxRangeByte, f \in 48..MaxFunctionByte, s \in {48, 49, 56, 57},
        o2 \in {48, 56}, o3 \in {48, 49, 52, 56, 57, 60, 61}, o4 \in {48, 52} }

\* the digit bytes, on the five ranges of the manual current function
DigitPackets ==
    { <<r, d[1], d[2], d[3], d[4], d[5], 57, s, 48, 48, 48, 48>> :
        r \in 48..52, d \in [1..5 -> DigitBytes], s \in {48, 49, 50, 52} }

\* every value of each of the five flag bytes in turn
FlagBytes ==
    { [i \in 1..5 |-> IF i = k THEN b ELSE IF i = 4 THEN o3 ELSE 48] :
        k \in 1..5, b \in 0..MaxByte, o3 \in {48, 60} }

FlagPackets ==
    { <<48, 50, 50, 48, 48, 48, f, o[1], o[2], o[3], o[4], o[5]>> :
        f \in {52, 58, 59}, o \in FlagBytes }

Packets == TablePackets \cup DigitPackets \cup FlagPackets

\* the lines main receives: a good voltage frame, a frame with an unknown
\* function code, an overloaded frame, a frame with the battery low, a
\* second good frame, a frame with UL and OL, a short line and the empty line of a timeout
GoodFrame == <<48, 50, 50, 48, 48, 48, 59, 48, 48, 48, 48, 48>>
BadFrame == <<48, 50, 50, 48, 48, 48, 58, 48, 48, 48, 48, 48>>
OverloadFrame == <<48, 50, 50, 48, 48, 48, 59, 49, 48, 48, 48, 48>>
BatteryFrame == <<48, 50, 50, 48, 48, 48, 59, 50, 48, 48, 48, 48>>
OtherFrame == <<49, 48, 57, 48, 48, 50, 51, 52, 48, 48, 56, 48>>
GlitchFrame == <<48, 48, 48, 48, 48, 48, 49, 49, 48, 56, 48, 48>>
Frames == {GoodFrame, BadFrame, OverloadFrame, BatteryFrame, OtherFrame, GlitchFrame}
ShortLines == {<<48>>, <<48, 50, 50>>}

(***************************************************************************)
(* parse and output_readable applied to one packet.                        *)
(***************************************************************************)
Idle ==
    /\ int_type = 0 /\ template = 1 /\ bits = NotRun
    /\ results = Unbound /\ running = FALSE /\ emitted = <<>> /\ nframes = 0
    /\ log = "" /\ mode_arg = "csv"

Init ==
    /\ packet \in Packets
    /\ pc = "parse"
    /\ ret = NotRun
    /\ out = NotRun
    /\ Idle

Parse ==
    /\ pc = "parse"
    /\ ret' = parse_locals(packet)
    /\ pc' = IF ret'.ok THEN "parsed" ELSE "raised"
    /\ UNCHANGED <<packet, out, int_type, template, bits, results, running, emitted, nframes, log, mode_arg>>

Readable ==
    /\ pc = "parsed"
    /\ out' = output_readable(ret.results)
    /\ pc' = "done"
    /\ UNCHANGED <<packet, ret, int_type, template, bits, results, running, emitted, nframes, log, mode_arg>>

Next == Parse \/ Readable

Spec == Init /\ [][Next]_vars

(***************************************************************************)
(* get_bits applied to one byte and one template.                          *)
(***************************************************************************)
InitBits ==
    /\ int_type \in 0..MaxByte
    /\ template \in 1..Len(OPTIONS)
    /\ bits = NotRun
    /\ pc = "get_bits"
    /\ packet = <<>> /\ ret = NotRun /\ out = NotRun
    /\ results = Unbound /\ running = FALSE /\ emitted = <<>> /\ nframes = 0
    /\ log = "" /\ mode_arg = "csv"

GetBits ==
    /\ pc = "get_bits"
    /\ bits' = get_bits(int_type, OPTIONS[template])
    /\ pc' = "returned"
    /\ UNCHANGED <<packet, ret, out, int_type, template, results, running, emitted, nframes, log, mode_arg>>

NextBits == GetBits

SpecBits == InitBits /\ [][NextBits]_vars

(***************************************************************************)
(* The ingestion loop of main, one action per step of a turn: the line is  *)
(* read, parse is tried, the CSV row is written, the readable line is      *)
(* printed.  An exception nothing catches ends the loop (running = FALSE). *)
(***************************************************************************)
InitMain ==
    /\ mode_arg \in {"csv", "readable"}
    /\ results = Unbound
    /\ running = TRUE
    /\ emitted = <<>>
    /\ nframes = 0
    /\ log = ""
    /\ packet = <<>>
    /\ pc = "readline"
    /\ ret = NotRun /\ out = NotRun
    /\ int_type = 0 /\ template = 1 /\ bits = NotRun

\* readline returns a 12-byte line
ReadPacket ==
    /\ pc = "readline" /\ running /\ nframes < MaxFrames
    /\ packet' \in Frames
    /\ pc' = "try"
    /\ log' = ""
    /\ emitted' = <<>>
    /\ nframes' = nframes + 1
    /\ UNCHANGED <<ret, out, int_type, template, bits, results, running, mode_arg>>

\* readline returns a line of another length
ReadUnknown ==
    /\ pc = "readline" /\ running /\ nframes < MaxFrames
    /\ packet' \in ShortLines
    /\ log' = "Unknown packet"
    /\ emitted' = <<>>
    /\ nframes' = nframes + 1
    /\ UNCHANGED <<pc, ret, out, int_type, template, bits, results, running, mode_arg>>

\* readline times out
ReadNothing ==
    /\ pc = "readline" /\ running /\ nframes < MaxFrames
    /\ packet' = <<>>
    /\ log' = "No response"
    /\ emitted' = <<>>
    /\ nframes' = nframes + 1
    /\ UNCHANGED <<pc, ret, out, int_type, template, bits, results, running, mode_arg>>

\* try: results = parse(line); except: the warning is logged
TryParse ==
    /\ pc = "try"
    /\ ret' = parse(packet)
    /\ results' = IF ret'.ok THEN ret'.results ELSE results
    /\ log' = IF ret'.ok THEN "" ELSE "Error packet"
    /\ pc' = "write"
    /\ UNCHANGED <<packet, out, int_type, template, bits, running, emitted, nframes, mode_arg>>

\* the first use of results after the try: NameError when it was never bound
WriteCsv ==
    /\ pc = "write"
    /\ IF results = Unbound
       THEN /\ running' = FALSE
            /\ pc' = "crashed"
            /\ UNCHANGED emitted
       ELSE /\ emitted' = IF mode_arg = "csv"
                          THEN <<[to |-> "file", text |-> output_csv(results)]>>
                          ELSE <<>>
            /\ pc' = "print"
            /\ UNCHANGED running
    /\ UNCHANGED <<packet, ret, out, int_type, template, bits, results, nframes, log, mode_arg>>

PrintReadable ==
    /\ pc = "print"
    /\ out' = output_readable(results)
    /\ IF out'.ok
       THEN /\ emitted' = Append(emitted, [to |-> "stdout", text |-> out'.line])
            /\ pc' = "readline"
            /\ UNCHANGED running
       ELSE /\ running' = FALSE
            /\ pc' = "crashed"
            /\ UNCHANGED emitted
    /\ UNCHANGED <<packet, ret, int_type, template, bits, results, nframes, log, mode_arg>>

NextMain == ReadPacket \/ ReadUnknown \/ ReadNothing \/ TryParse \/ WriteCsv \/ PrintReadable

SpecMain == InitMain /\ [][NextMain]_vars

(***************************************************************************)
(* Properties.  The flags of a packet are read off its bytes directly:     *)
(* packet[8] is status, packet[9..12] are option1..option4.                *)
(***************************************************************************)
BitOf(b, k) == (b \div (2 ^ k)) % 2

Judge_flag == BitOf(packet[8], 3) = 1
Sign_flag == BitOf(packet[8], 2) = 1
BATT_flag == BitOf(packet[8], 1) = 1
OL_flag == BitOf(packet[8], 0) = 1
UL_flag == BitOf(packet[10], 3) = 1
DC_flag == BitOf(packet[11], 3) = 1
AC_flag == BitOf(packet[11], 2) = 1
VAHZ_flag == BitOf(packet[11], 0) = 1
VBAR_flag == BitOf(packet[12], 2) = 1

\* bits 6..4 of a flag byte are 0, 1, 1; bit 0 of option2 and bit 3 of
\* option4 are 0
FramingOK(b) == (b % 128) \div 16 = 3

FlagBytesOK ==
    /\ \A i \in 8..12 : FramingOK(packet[i])
    /\ BitOf(packet[10], 0) = 0
    /\ BitOf(packet[12], 3) = 0

FunctionKnown == packet[7] \in DOMAIN FUNCTION

\* the function has a range table and the range byte is one of its codes
RangeKnown ==
    /\ FunctionKnown
    /\ ~FUNCTION[packet[7]][2].none
    /\ packet[1] \in DOMAIN FUNCTION[packet[7]][2].tbl

DigitsKnown == \A i \in 2..6 : packet[i] \in 48..57

Returned == pc \in {"parsed", "done"}
Called == pc \in {"parsed", "done", "raised"}

\* C1: on every packet for which parse returns a Reading, value and
\* display_value are numeric exactly when operation is "normal", and both
\* are the empty marker when it is "underload" or "overload".
C1_PresentIffNormal ==
    Returned =>
        LET r == ret.results
        IN  /\ r.operation \in {"normal", "underload", "overload"}
            /\ (r.operation = "normal") =>
                  /\ DOMAIN r.value = {"mant", "exp10"}
                  /\ DOMAIN r.display_value = {"sign", "coeff", "exp"}
            /\ (r.operation # "normal") =>
                  /\ r.value = <<>>
                  /\ r.display_value = <<>>

C1_Witness ==
    /\ pc = "parsed"
    /\ ret.results.operation = "overload"
    /\ ret.results.value = <<>>
    /\ ret.results.display_value = <<>>

\* C2: a packet with OL set and UL clear, a known function and range code,
\* well-framed flag bytes and not both AC and DC, decodes to the operation
\* "overload" with value and display_value absent, whatever the five digit
\* bytes hold.
C2_OverloadAnyDigits ==
    (Called /\ OL_flag /\ ~UL_flag /\ RangeKnown /\ FlagBytesOK /\ ~(AC_flag /\ DC_flag)) =>
        /\ ret.ok
        /\ ret.results.operation = "overload"
        /\ ret.results.value = <<>>
        /\ ret.results.display_value = <<>>

\* C3: a packet with the temperature function code, valid digits and flag
\* bytes and VAHZ clear returns a Reading of mode "temperature" whose range
\* is (1, 1, "deg") with VBAR set and (1, 2, "deg") with VBAR clear, for
\* every range byte.
C3_TemperatureDecodes ==
    (Called /\ packet[7] = 52 /\ DigitsKnown /\ FlagBytesOK /\ ~(AC_flag /\ DC_flag) /\ ~VAHZ_flag) =>
        /\ ret.ok
        /\ ret.results.mode = "temperature"
        /\ ret.m_range = Triple(0, IF VBAR_flag THEN 1 ELSE 2, "deg")

\* C4 as stated: every packet with AC and DC both set fails, and the
\* failure is the AC/DC conflict whatever the other fields hold.
C4_ConflictAlwaysReported ==
    (Called /\ AC_flag /\ DC_flag) => (~ret.ok /\ ret.line = 242)

\* C4 amended: every packet with AC and DC both set fails; the failure is
\* the AC/DC conflict exactly when the function and range lookups succeed
\* and the five flag bytes match the fixed bits of their templates, and is
\* the failure of that earlier step otherwise.
C4_ConflictAfterLookups ==
    (Called /\ AC_flag /\ DC_flag) =>
        /\ ~ret.ok
        /\ (ret.line = 242) <=> (RangeKnown /\ FlagBytesOK)
        /\ ~FunctionKnown => ret.line = 229
        /\ (FunctionKnown /\ ~RangeKnown) => ret.line = 230
        /\ (RangeKnown /\ ~FlagBytesOK) => ret.line = 67

C4_Witness ==
    /\ pc = "raised"
    /\ AC_flag /\ DC_flag
    /\ packet[7] = 59
    /\ ret = Raise("ValueError", 242)

\* C6: for every Reading parse returns, output_readable returns a line:
\* the display value and unit when the operation is normal, the
\* "-, the measurement is <operation>ed!" text otherwise, with the
\* battery-low notice appended when battery_low is true.
C6_ReadableLine ==
    (pc = "done") =>
        LET r == ret.results
            base == IF r.operation = "normal"
                    THEN DecimalStr(r.display_value) \o <<" ", r.display_unit>>
                    ELSE <<"-, the measurement is ", r.operation, "ed!">>
        IN  /\ out.ok
            /\ out.line = IF r.battery_low THEN base \o <<" Battery low!">> ELSE base

\* C7: operation is "underload" when UL is set (OL set or not), "overload"
\* when OL is set and UL clear, "normal" when both are clear; UL and OL
\* never make a packet fail, and a packet with both set decodes to
\* "underload" with value and display_value absent.
ClearULOL(p) ==
    [p EXCEPT ![8] = p[8] - BitOf(p[8], 0), ![10] = p[10] - 8 * BitOf(p[10], 3)]

C7_OperationFromFlags ==
    /\ Returned =>
          /\ ret.results.operation = (IF UL_flag THEN "underload"
                                      ELSE IF OL_flag THEN "overload" ELSE "normal")
          /\ (UL_flag /\ OL_flag) =>
                (ret.results.value = <<>> /\ ret.results.display_value = <<>>)
    /\ Called => (ret.ok <=> parse(ClearULOL(packet)).ok)

C7_Witness ==
    /\ pc = "parsed"
    /\ UL_flag /\ OL_flag
    /\ ret.results.operation = "underload"
    /\ ret.results.value = <<>>

\* C8: on every decoded packet, VAHZ set and Judge clear force the mode
\* "frequency", the unit "Hz" and the range (1, 1, "Hz"); otherwise Judge
\* set with VAHZ set or a function code of mode "frequency" force
\* "duty_cycle", "%" and (1, 1, "%"); otherwise mode, unit and range are
\* those of the function and range tables.
C8_ModeOverride ==
    Returned =>
        LET entry == FUNCTION[packet[7]]
            r == ret.results
        IN  /\ (VAHZ_flag /\ ~Judge_flag) =>
                  (r.mode = "frequency" /\ r.unit = "Hz" /\ ret.m_range = Triple(0, 1, "Hz"))
            /\ (Judge_flag /\ (VAHZ_flag \/ entry[1] = "frequency")) =>
                  (r.mode = "duty_cycle" /\ r.unit = "%" /\ ret.m_range = Triple(0, 1, "%"))
            /\ (~VAHZ_flag /\ ~(Judge_flag /\ entry[1] = "frequency")) =>
                  (r.mode = entry[1] /\ r.unit = entry[3] /\ ret.m_range = entry[2].tbl[packet[1]])
            /\ r.display_unit = ret.m_range.unit

C8_Witness ==
    /\ pc = "parsed"
    /\ VAHZ_flag /\ ~Judge_flag
    /\ FUNCTION[packet[7]][1] = "voltage"
    /\ ret.results.mode = "frequency"
    /\ ret.results.unit = "Hz"

\* C10: on every packet decoded with operation "normal", display_value is
\* the integer d4*10^4 + d3*10^3 + d2*10^2 + d1*10 + d0 of the five digit
\* numerals, negated exactly when Sign is set, written with the decimal
\* point shifted left by the precision of the range and exactly that many
\* fractional digits; display_unit is the unit of the range.
RECURSIVE TextToNat(_)
TextToNat(t) ==
    IF t = <<>> THEN 0
    ELSE 10 * TextToNat(SubSeq(t, 1, Len(t) - 1))
         + (CHOOSE v \in 0..9 : DigitChar[v + 1] = t[Len(t)])

IsDigitText(t) == \A i \in 1..Len(t) : \E v \in 0..9 : DigitChar[v + 1] = t[i]

C10_DisplayValue ==
    (Returned /\ ret.results.operation = "normal") =>
        LET magnitude == (packet[2] - 48) * 10000 + (packet[3] - 48) * 1000
                         + (packet[4] - 48) * 100 + (packet[5] - 48) * 10 + (packet[6] - 48)
            signed == IF Sign_flag THEN 0 - magnitude ELSE magnitude
            precision == ret.m_range.precision
            text == DecimalStr(ret.results.display_value)
            body == IF signed < 0 THEN Tail(text) ELSE text
            whole == SubSeq(body, 1, Len(body) - (IF precision = 0 THEN 0 ELSE precision + 1))
            frac == SubSeq(body, Len(body) - precision + 1, Len(body))
        IN  /\ magnitude \in 0..99999
            /\ (signed < 0) <=> (text[1] = "-")
            /\ Len(whole) >= 1 /\ IsDigitText(whole)
            /\ Len(frac) = precision /\ IsDigitText(frac)
            /\ (precision > 0) => body[Len(whole) + 1] = "."
            /\ Len(body) = Len(whole) + precision + (IF precision = 0 THEN 0 ELSE 1)
            /\ TextToNat(whole \o frac) = magnitude
            /\ ret.results.display_unit = ret.m_range.unit

C10_Witness ==
    /\ pc = "parsed"
    /\ <<packet[2], packet[3], packet[4], packet[5], packet[6]>> = <<50, 50, 48, 48, 48>>
    /\ Sign_flag
    /\ ret.m_range.precision = 4
    /\ DecimalStr(ret.results.display_value) = <<"-", "2", ".", "2", "0", "0", "0">>

\* C9: get_bits matches template index k against bit 6-k of the byte and
\* never looks at bit 7; it fails, returning no mapping, when a literal
\* position holds the other bit, and otherwise returns the mapping from
\* exactly the flag names of the template to the values of their bits.
C9_GetBits ==
    (pc = "returned") =>
        LET tmpl == OPTIONS[template]
            named == {k \in 0..6 : ~tmpl[k + 1].fixed}
            mismatch == \E k \in 0..6 :
                            tmpl[k + 1].fixed /\ tmpl[k + 1].lit # BitOf(int_type, 6 - k)
        IN  /\ mismatch => (~bits.ok /\ bits.exc = "ValueError" /\ "bits" \notin DOMAIN bits)
            /\ ~mismatch =>
                  /\ bits.ok
                  /\ DOMAIN bits.bits = {tmpl[k + 1].name : k \in named}
                  /\ \A k \in named : bits.bits[tmpl[k + 1].name] = (BitOf(int_type, 6 - k) = 1)
            /\ bits = get_bits(int_type % 128, tmpl)

C9_Witness ==
    /\ pc = "returned"
    /\ template = 1
    /\ int_type = 128 + 56
    /\ bits.ok
    /\ bits.bits = [n \in {"Judge", "Sign", "BATT", "OL"} |-> n = "Judge"]

\* C5: in the loop of main a 12-byte frame on which parse raises is logged
\* and dropped: the loop keeps running and writes nothing for it, so that
\* whatever a turn writes is the Reading of the frame it has just read.
C5_BadFrameDropped ==
    (pc \in {"write", "print", "readline", "crashed"} /\ Len(packet) = 12) =>
        IF ret.ok
        THEN \A i \in 1..Len(emitted) :
                \/ emitted[i] = [to |-> "file", text |-> output_csv(ret.results)]
                \/ /\ output_readable(ret.results).ok
                   /\ emitted[i] = [to |-> "stdout", text |-> output_readable(ret.results).line]
        ELSE running /\ emitted = <<>> /\ log = "Error packet"

====
